---- MODULE Spec2Model ----
(***************************************************************************)
(* Model of matrix::solve and matrix::factorize (in-place LU factorization *)
(* with row pivoting by permutation vector, then forward and backward      *)
(* substitution) of                                                        *)
(* Exercises/2020/06-optimization-debugging-profiling/01-matrix-solution-3 *)
(* /matrix.cpp.                                                            *)
(*                                                                         *)
(* Numbers.  A double is modelled without rounding: a value is a pair      *)
(* <<n, d>>.  d > 0 and n # 0 is the rational n/d in lowest terms; <<0,1>> *)
(* is +0 and <<0,-1>> is -0; <<1,0>> and <<-1,0>> are +inf and -inf;       *)
(* <<0,0>> is NaN.  The operations follow IEEE 754 on these values, so a   *)
(* division by zero produces inf or NaN exactly as the compiled code does. *)
(*                                                                         *)
(* Indices are 0-based as in the source: a matrix is a function            *)
(* 0..rows-1 -> (0..cols-1 -> value), a vector a function 0..len-1 -> value*)
(***************************************************************************)
EXTENDS Integers, FiniteSets, Sequences, TLC

(***************************************************************************)
(* Bounds of the model                                                     *)
(***************************************************************************)
\* matrices of dimension 1 and 2 have integer entries in -1..MaxEntry; those of
\* dimension 3 have entries in -1..1 (see EntrySet)
MaxEntry == 2
\* right-hand sides have integer entries in 0..MaxRhs
MaxRhs == 2
\* number of solve calls made on one solver instance
MaxCalls == 2

(***************************************************************************)
(* double arithmetic                                                       *)
(***************************************************************************)
Abs(x) == IF x < 0 THEN -x ELSE x

RECURSIVE GCD(_, _)
GCD(a, b) == IF b = 0 THEN a ELSE GCD(b, a % b)

NaN == <<0, 0>>

Inf(s) == <<s, 0>>

Zero(s) == <<0, s>>

\* the double holding the integer k
R(k) == IF k = 0 THEN Zero(1) ELSE <<k, 1>>

\* n/d for n # 0, d > 0, in lowest terms
Rat(n, d) == LET g == GCD(Abs(n), d) IN <<n \div g, d \div g>>

IsNaN(v) == v[1] = 0 /\ v[2] = 0

IsInf(v) == v[1] # 0 /\ v[2] = 0

IsZero(v) == v[1] = 0 /\ v[2] # 0

IsFinite(v) == v[2] # 0

\* the sign bit as +1 / -1 (0 for NaN)
Sgn(v) == IF v[1] > 0 THEN 1 ELSE IF v[1] < 0 THEN -1 ELSE v[2]

\* unary minus
Neg(v) == IF v[1] = 0 THEN <<0, -v[2]>> ELSE <<-v[1], v[2]>>

\* a * b
Mul(a, b) ==
  IF IsNaN(a) \/ IsNaN(b) THEN NaN
  ELSE IF (IsInf(a) /\ IsZero(b)) \/ (IsZero(a) /\ IsInf(b)) THEN NaN
  ELSE IF IsInf(a) \/ IsInf(b) THEN Inf(Sgn(a) * Sgn(b))
  ELSE IF IsZero(a) \/ IsZero(b) THEN Zero(Sgn(a) * Sgn(b))
  ELSE Rat(a[1] * b[1], a[2] * b[2])

\* a + b (round to nearest: an exact cancellation gives +0)
Add(a, b) ==
  IF IsNaN(a) \/ IsNaN(b) THEN NaN
  ELSE IF IsInf(a) /\ IsInf(b) THEN (IF a = b THEN a ELSE NaN)
  ELSE IF IsInf(a) THEN a
  ELSE IF IsInf(b) THEN b
  ELSE IF IsZero(a) /\ IsZero(b) THEN (IF a = b THEN a ELSE Zero(1))
  ELSE IF IsZero(a) THEN b
  ELSE IF IsZero(b) THEN a
  ELSE LET n == a[1] * b[2] + b[1] * a[2]
       IN  IF n = 0 THEN Zero(1) ELSE Rat(n, a[2] * b[2])

\* a - b
Sub(a, b) == Add(a, Neg(b))

\* a / b
Div(a, b) ==
  IF IsNaN(a) \/ IsNaN(b) THEN NaN
  ELSE IF (IsInf(a) /\ IsInf(b)) \/ (IsZero(a) /\ IsZero(b)) THEN NaN
  ELSE IF IsInf(a) \/ IsZero(b) THEN Inf(Sgn(a) * Sgn(b))
  ELSE IF IsInf(b) \/ IsZero(a) THEN Zero(Sgn(a) * Sgn(b))
  ELSE Rat(a[1] * b[2] * Sgn(b), a[2] * Abs(b[1]))

\* a > b (false as soon as one side is NaN; +0 and -0 compare equal)
Gt(a, b) ==
  IF IsNaN(a) \/ IsNaN(b) THEN FALSE
  ELSE IF IsInf(a) THEN a[1] > 0 /\ a # b
  ELSE IF IsInf(b) THEN b[1] < 0
  ELSE a[1] * Abs(b[2]) > b[1] * Abs(a[2])

\* a == b
Eq(a, b) == ~IsNaN(a) /\ ~IsNaN(b) /\ ~Gt(a, b) /\ ~Gt(b, a)

(***************************************************************************)
(* Inputs                                                                  *)
(***************************************************************************)
\* the vector / matrix holding the integers of a sequence (of sequences)
Vec(s) == [k \in 0..(Len(s) - 1) |-> R(s[k + 1])]

Mat(ss) == [i \in 0..(Len(ss) - 1) |-> Vec(ss[i + 1])]

\* the two systems the specification names
KnownA == Mat(<< <<2, 1>>, <<1, 3>> >>)

KnownB == Vec(<<3, 5>>)

SingularA == Mat(<< <<1, 2>>, <<2, 4>> >>)

Dims == 1..3

\* entries of column c of an n x n input: -1..MaxEntry up to dimension 2; from
\* dimension 3 on -1..1 in the first column and 0..1 in the others
EntrySet(n, c) ==
  IF n <= 2 THEN {R(k) : k \in (-1)..MaxEntry}
  ELSE IF c = 0 THEN {R(-1), R(0), R(1)}
  ELSE {R(0), R(1)}

ColumnsOver(n) ==
  {r \in [0..(n - 1) -> EntrySet(n, 0) \cup EntrySet(n, 1)] :
     \A c \in 0..(n - 1) : r[c] \in EntrySet(n, c)}

SquareInputs == UNION {[0..(n - 1) -> ColumnsOver(n)] : n \in Dims}

\* 1 x 2 and 2 x 1 matrices
NonSquareInputs ==
  [0..0 -> [0..1 -> {R(0), R(1)}]] \cup [0..1 -> [0..0 -> {R(0), R(1)}]]

Inputs == SquareInputs \cup NonSquareInputs \cup {KnownA, SingularA}

\* right-hand sides offered to a solver of n rows: every vector of length n
\* over the entry range (0..MaxRhs up to dimension 2, {1, MaxRhs} from
\* dimension 3 on), and one vector that is one element too long
RhsSet(n) ==
  [0..(n - 1) -> IF n <= 2 THEN {R(k) : k \in 0..MaxRhs} ELSE {R(1), R(MaxRhs)}]
    \cup {[k \in 0..n |-> R(k + 1)]}

(***************************************************************************)
(* matrix::factorize and matrix::solve, loop bodies as functions           *)
(***************************************************************************)
\* p.resize(rows, 0); for (ii < rows) p[ii] = ii;
Identity(n) == [k \in 0..(n - 1) |-> k]

\* a scan that also replaces the candidate on an equal value
PivotNotSmaller(cand, maxpivot) == Gt(cand, maxpivot) \/ Eq(cand, maxpivot)

\* the comparison of the pivot scan
PivotBetter(cand, maxpivot) == Gt(cand, maxpivot)

\* the scan for (kk = ii + 1; kk < m; ++kk) if (index(p[kk], ii) > maxpivot) ...
RECURSIVE PivotScan(_, _, _, _, _, _, _)
PivotScan(M, q, col, kk, m, maxpivot, imaxpivot) ==
  IF kk >= m THEN imaxpivot
  ELSE IF PivotBetter(M[q[kk]][col], maxpivot)
       THEN PivotScan(M, q, col, kk + 1, m, M[q[kk]][col], kk)
       ELSE PivotScan(M, q, col, kk + 1, m, maxpivot, imaxpivot)

\* maxpivot = index(p[ii], ii); imaxpivot = ii; the scan
SelectPivot(M, q, col, m) == PivotScan(M, q, col, col + 1, m, M[q[col]][col], col)

\* a swap that forgets to write the second element
SwapRowsOneSided(q, a, b) == IF b # a THEN [q EXCEPT ![a] = q[b]] ELSE q

\* if (imaxpivot != ii) std::swap(p[ii], p[imaxpivot]);
SwapRows(q, a, b) == IF b # a THEN [q EXCEPT ![a] = q[b], ![b] = q[a]] ELSE q

\* a row update that adds the multiple of the pivot row instead of subtracting it
EliminateRowPlus(M, q, col, jj, n, pivot) ==
  LET r    == q[jj]
      mult == Div(M[r][col], pivot)
  IN  [M EXCEPT ![r] =
         [c \in DOMAIN M[r] |->
            IF c = col THEN mult
            ELSE IF c > col /\ c < n
                 THEN Add(M[r][c], Mul(M[q[col]][c], mult))
                 ELSE M[r][c]]]

\* body of the jj loop: the multiplier, then the update of the rest of the row
EliminateRow(M, q, col, jj, n, pivot) ==
  LET r    == q[jj]
      mult == Div(M[r][col], pivot)
  IN  [M EXCEPT ![r] =
         [c \in DOMAIN M[r] |->
            IF c = col THEN mult
            ELSE IF c > col /\ c < n
                 THEN Add(M[r][c], Mul(Neg(M[q[col]][c]), mult))
                 ELSE M[r][c]]]

\* for (jj = ii + 1; jj < m; ++jj)
RECURSIVE EliminateBelow(_, _, _, _, _, _, _)
EliminateBelow(M, q, col, jj, m, n, pivot) ==
  IF jj >= m THEN M
  ELSE EliminateBelow(EliminateRow(M, q, col, jj, n, pivot), q, col, jj + 1, m, n, pivot)

\* one pass of the ii loop of factorize
PivotColumn(M, q, col, m, n) ==
  LET imaxpivot == SelectPivot(M, q, col, m)
      q2        == SwapRows(q, col, imaxpivot)
      pivot     == M[q2[col]][col]
  IN  [A |-> EliminateBelow(M, q2, col, col + 1, m, n, pivot), p |-> q2,
       imaxpivot |-> imaxpivot, pivot |-> pivot]

\* forward substitution: for (kk = 0; kk < ii; ++kk) f -= index(p[ii], kk) * b[p[kk]];
RECURSIVE FwdAcc(_, _, _, _, _, _)
FwdAcc(M, q, b, row, kk, f) ==
  IF kk >= row THEN f
  ELSE FwdAcc(M, q, b, row, kk + 1, Sub(f, Mul(M[q[row]][kk], b[q[kk]])))

\* a forward step that reads the earlier unknowns at b[kk] instead of b[p[kk]]
RECURSIVE FwdAccUnpermuted(_, _, _, _, _, _)
FwdAccUnpermuted(M, q, b, row, kk, f) ==
  IF kk >= row THEN f
  ELSE FwdAccUnpermuted(M, q, b, row, kk + 1, Sub(f, Mul(M[q[row]][kk], b[kk])))

FwdRowUnpermuted(M, q, b, row) ==
  [b EXCEPT ![q[row]] = FwdAccUnpermuted(M, q, b, row, 0, b[q[row]])]

\* body of the forward loop
FwdRow(M, q, b, row) == [b EXCEPT ![q[row]] = FwdAcc(M, q, b, row, 0, b[q[row]])]

\* backward substitution: for (kk = ii + 1; kk < get_cols(); ++kk) f -= ...
RECURSIVE BwdAcc(_, _, _, _, _, _, _)
BwdAcc(M, q, b, row, kk, n, f) ==
  IF kk >= n THEN f
  ELSE BwdAcc(M, q, b, row, kk + 1, n, Sub(f, Mul(M[q[row]][kk], b[q[kk]])))

\* a backward step whose inner loop starts at kk = ii instead of ii + 1
BwdRowOffByOne(M, q, b, row, n) ==
  [b EXCEPT ![q[row]] = Div(BwdAcc(M, q, b, row, row, n, b[q[row]]), M[q[row]][row])]

\* body of the backward loop
BwdRow(M, q, b, row, n) ==
  [b EXCEPT ![q[row]] = Div(BwdAcc(M, q, b, row, row + 1, n, b[q[row]]), M[q[row]][row])]

\* a solve that factorizes on every call
AlwaysFactorize(flag) == TRUE

\* if (!factorized) factorize();
NeedsFactorize(flag) == ~flag

\* factorize on a fresh solver: every pass of the ii loop, from the identity
RECURSIVE FactorizeFrom(_, _, _, _, _)
FactorizeFrom(M, q, col, m, n) ==
  IF col < m - 1
  THEN LET s == PivotColumn(M, q, col, m, n) IN FactorizeFrom(s.A, s.p, col + 1, m, n)
  ELSE [A |-> M, p |-> q]

\* the whole forward loop
RECURSIVE ForwardFrom(_, _, _, _, _)
ForwardFrom(M, q, b, row, m) ==
  IF row < m THEN ForwardFrom(M, q, FwdRow(M, q, b, row), row + 1, m) ELSE b

\* the whole backward loop
RECURSIVE BackwardFrom(_, _, _, _, _, _)
BackwardFrom(M, q, b, j, m, n) ==
  IF j <= m THEN BackwardFrom(M, q, BwdRow(M, q, b, m - j, n), j + 1, m, n) ELSE b

\* solve(b) on a freshly constructed solver holding M0
FreshSolve(M0, b) ==
  LET m == Cardinality(DOMAIN M0)
      f == FactorizeFrom(M0, Identity(m), 0, m, m)
  IN  BackwardFrom(f.A, f.p, ForwardFrom(f.A, f.p, b, 0, m), 1, m, m)

(***************************************************************************)
(* State                                                                   *)
(***************************************************************************)
VARIABLES
  A,          \* the matrix storage of the solver
  rows, cols, \* its shape
  p,          \* the permutation vector
  factorized, \* the flag
  rhs,        \* the right-hand side of the current (or last) solve call
  pc,         \* where control is
  ii,         \* loop counter of factorize and of the forward loop
  jj,         \* loop counter of the backward loop
  A0,         \* history: the matrix the solver was constructed with
  rhs0,       \* history: rhs as passed to the current (or last) solve call
  calls,      \* history: number of solve calls started
  factRuns,   \* history: number of times factorize was entered
  zeroPivot,  \* history: factorize divided by a zero pivot
  zeroDiag    \* history: backward substitution divided by a zero diagonal entry

vars == <<A, rows, cols, p, factorized, rhs, pc, ii, jj, A0, rhs0, calls,
          factRuns, zeroPivot, zeroDiag>>

hist == <<A0, rhs0, calls, factRuns, zeroPivot, zeroDiag>>

EmptyVec == [k \in {} |-> NaN]

\* a freshly constructed solver: the matrix is the caller's, the permutation is
\* sized, the flag is false
Init ==
  /\ A0 \in Inputs
  /\ A = A0
  /\ rows = Cardinality(DOMAIN A0)
  /\ cols = Cardinality(DOMAIN A0[0])
  /\ p = [k \in 0..(Cardinality(DOMAIN A0) - 1) |-> 0]
  /\ factorized = FALSE
  /\ rhs = EmptyVec
  /\ rhs0 = EmptyVec
  /\ pc = "idle"
  /\ ii = 0
  /\ jj = 0
  /\ calls = 0
  /\ factRuns = 0
  /\ zeroPivot = FALSE
  /\ zeroDiag = FALSE

\* solve(rhs) is called: the test of the flag
SolveCall ==
  /\ pc = "idle"
  /\ calls < MaxCalls
  /\ \E b \in RhsSet(rows) \cup (IF A0 = KnownA THEN {KnownB} ELSE {}) :
       /\ rhs' = b
       /\ rhs0' = b
  /\ calls' = calls + 1
  /\ IF NeedsFactorize(factorized)
     THEN pc' = "factorize" /\ factRuns' = factRuns + 1
     ELSE pc' = "fwd" /\ factRuns' = factRuns
  /\ ii' = 0
  /\ jj' = 0
  /\ UNCHANGED <<A, rows, cols, p, factorized, A0, zeroPivot, zeroDiag>>

\* factorize, up to the loop: the identity permutation and assert(m == n)
FactorizeBegin ==
  /\ pc = "factorize"
  /\ p' = Identity(rows)
  /\ pc' = IF rows = cols THEN "pivot" ELSE "aborted"
  /\ ii' = 0
  /\ UNCHANGED <<A, rows, cols, factorized, rhs, jj, hist>>

\* one pass of the loop for (ii = 0; ii < m - 1; ++ii)
FactorizeColumn ==
  /\ pc = "pivot"
  /\ ii < rows - 1
  /\ LET s == PivotColumn(A, p, ii, rows, cols)
     IN  /\ A' = s.A
         /\ p' = s.p
         /\ zeroPivot' = (zeroPivot \/ IsZero(s.pivot))
  /\ ii' = ii + 1
  /\ UNCHANGED <<rows, cols, factorized, rhs, pc, jj, A0, rhs0, calls, factRuns, zeroDiag>>

\* a factorize that returns without setting the flag
FactorizeEndNoFlag ==
  /\ pc = "pivot"
  /\ ~(ii < rows - 1)
  /\ pc' = "fwd"
  /\ ii' = 0
  /\ UNCHANGED <<A, rows, cols, p, factorized, rhs, jj, hist>>

\* the loop is over: factorized = true, back in solve
FactorizeEnd ==
  /\ pc = "pivot"
  /\ ~(ii < rows - 1)
  /\ factorized' = TRUE
  /\ pc' = "fwd"
  /\ ii' = 0
  /\ UNCHANGED <<A, rows, cols, p, rhs, jj, hist>>

\* one pass of the forward loop for (ii = 0; ii < get_rows(); ++ii)
ForwardRow ==
  /\ pc = "fwd"
  /\ ii < rows
  /\ rhs' = FwdRow(A, p, rhs, ii)
  /\ ii' = ii + 1
  /\ UNCHANGED <<A, rows, cols, p, factorized, pc, jj, hist>>

\* the forward loop is over: on to for (jj = 1; jj <= get_rows(); ++jj)
ForwardEnd ==
  /\ pc = "fwd"
  /\ ~(ii < rows)
  /\ pc' = "bwd"
  /\ jj' = 1
  /\ UNCHANGED <<A, rows, cols, p, factorized, rhs, ii, hist>>

\* one pass of the backward loop, ii = get_rows() - jj
BackwardRow ==
  /\ pc = "bwd"
  /\ jj <= rows
  /\ rhs' = BwdRow(A, p, rhs, rows - jj, cols)
  /\ zeroDiag' = (zeroDiag \/ IsZero(A[p[rows - jj]][rows - jj]))
  /\ ii' = rows - jj
  /\ jj' = jj + 1
  /\ UNCHANGED <<A, rows, cols, p, factorized, pc, A0, rhs0, calls, factRuns, zeroPivot>>

\* the backward loop is over: solve returns
SolveReturn ==
  /\ pc = "bwd"
  /\ ~(jj <= rows)
  /\ pc' = "idle"
  /\ UNCHANGED <<A, rows, cols, p, factorized, rhs, ii, jj, hist>>

Next ==
  \/ SolveCall
  \/ FactorizeBegin
  \/ FactorizeColumn
  \/ FactorizeEnd
  \/ ForwardRow
  \/ ForwardEnd
  \/ BackwardRow
  \/ SolveReturn

Spec == Init /\ [][Next]_vars

(***************************************************************************)
(* Properties                                                              *)
(***************************************************************************)
RECURSIVE SumVals(_)
SumVals(s) == IF s = <<>> THEN Zero(1) ELSE Add(Head(s), SumVals(Tail(s)))

RECURSIVE SumInts(_)
SumInts(s) == IF s = <<>> THEN 0 ELSE Head(s) + SumInts(Tail(s))

Without(s, k) == [i \in 1..(Len(s) - 1) |-> IF i < k THEN s[i] ELSE s[i + 1]]

\* determinant of an integer matrix, expanded along row r over the columns cs
RECURSIVE DetMinor(_, _, _)
DetMinor(M, r, cs) ==
  IF cs = <<>> THEN 1
  ELSE SumInts([k \in 1..Len(cs) |->
         (IF k % 2 = 1 THEN 1 ELSE -1) * M[r][cs[k]][1] * DetMinor(M, r + 1, Without(cs, k))])

Det(M) == DetMinor(M, 0, [k \in 1..Cardinality(DOMAIN M) |-> k - 1])

IsPermutation(q, n) ==
  /\ DOMAIN q = 0..(n - 1)
  /\ \A k \in 0..(n - 1) : q[k] \in 0..(n - 1)
  /\ \A k, l \in 0..(n - 1) : q[k] = q[l] => k = l

Length(v) == Cardinality(DOMAIN v)

\* a solve call has returned to its caller
Returned == pc = "idle" /\ calls >= 1

\* row r of M0 times the vector x (x a function on 0..n-1)
RowTimes(M0, r, x, n) == SumVals([k \in 1..n |-> Mul(M0[r][k - 1], x[k - 1])])

\* M0 x = b, row by row
Solves(M0, x, b, n) == \A r \in 0..(n - 1) : Eq(RowTimes(M0, r, x, n), b[r])

\* the unknowns as the code leaves them: the i-th one at rhs[p[i]]
Unpermuted == [i \in 0..(rows - 1) |-> rhs[p[i]]]

\* C1: after solve(b) on an invertible matrix, rhs read in natural index order
\* rhs[0..n-1] is the solution of A x = b, row swaps or not.
C1_NaturalOrderSolution ==
  (Returned /\ Det(A0) # 0 /\ Length(rhs0) = rows) => Solves(A0, rhs, rhs0, rows)

\* C2: on a square matrix, from the end of the identity initialisation of
\* factorize onward (every pivot step, the return of factorize, every later
\* solve call) p is a bijection on 0..n-1.
C2_PermutationValid ==
  (rows = cols /\ factRuns >= 1 /\ pc # "factorize") => IsPermutation(p, rows)

C2_Witness ==
  /\ rows = 3
  /\ calls = 2
  /\ pc = "bwd"
  /\ p[0] # 0 /\ p[1] # 1 /\ p[2] # 2

\* C3: factorize runs at most once; the flag starts false, is set only when
\* the pivot loop of factorize is over, and is never cleared; a solve call made
\* with the flag set goes to forward then backward substitution without
\* factorize and leaves matrix, permutation and flag alone.
C3_FactorizeOnce ==
  /\ ~factorized
  /\ [][/\ factRuns' <= 1
        /\ (~factorized /\ factorized') => (pc = "pivot" /\ ~(ii < rows - 1))
        /\ factorized =>
             /\ factorized' /\ A' = A /\ p' = p /\ factRuns' = factRuns
             /\ pc = "idle" => pc' \in {"idle", "fwd"}
             /\ pc = "fwd" => pc' \in {"fwd", "bwd"}
             /\ pc = "bwd" => pc' \in {"bwd", "idle"}]_vars

C3_Witness ==
  /\ calls = 2
  /\ Returned
  /\ factorized
  /\ factRuns = 1
  /\ p # Identity(rows)
  /\ A # A0

\* C4: solve(b1) then solve(b2) on one solver leaves in each right-hand side
\* what a fresh solver holding the original matrix leaves in it.
C4_ReuseEqualsFresh == Returned => rhs = FreshSolve(A0, rhs0)

C4_Witness ==
  /\ calls = 2
  /\ Returned
  /\ p # Identity(rows)
  /\ rhs # rhs0
  /\ \A k \in 0..(rows - 1) : IsFinite(rhs[k])

\* C5: a zero pivot in factorize or a zero diagonal divisor in backward
\* substitution is reported as a failure and never divided by; solve on
\* [[1,2],[2,4]] does not return normally.
C5_SingularReported ==
  /\ ~zeroPivot
  /\ ~zeroDiag
  /\ ~(A0 = SingularA /\ Returned)

\* a substitution step has read or written rhs in the current call
SubstitutionStarted ==
  \/ pc = "fwd" /\ ii > 0
  \/ pc = "bwd"
  \/ Returned

\* C6: with a matrix that is not square, or a right-hand side whose length is
\* not n, solve ends in a failure before any substitution step touches rhs.
C6_DimensionMismatchReported ==
  (calls >= 1 /\ (rows # cols \/ Length(rhs0) # rows)) => ~SubstitutionStarted

\* C7: A = [[2,1],[1,3]], b = [3,5]: the first solve leaves p the identity and
\* rhs = [4/5, 7/5].
C7_KnownCase ==
  (A0 = KnownA /\ rhs0 = KnownB /\ calls = 1 /\ Returned)
    => (p = Identity(2) /\ rhs = (0 :> <<4, 5>> @@ 1 :> <<7, 5>>))

C7_Witness == A0 = KnownA /\ rhs0 = KnownB /\ calls = 1 /\ Returned

LFactor(i, k) == IF k < i THEN A[p[i]][k] ELSE IF k = i THEN R(1) ELSE R(0)

UFactor(k, j) == IF j >= k THEN A[p[k]][j] ELSE R(0)

\* factorize has just returned to solve
FactorizeReturned == factorized /\ factRuns = calls /\ pc = "fwd" /\ ii = 0

\* C9: when factorize returns and no selected pivot was zero, the storage holds
\* L (below the diagonal) and U (on and above it) with L U = P A_original.
C9_LUProduct ==
  (FactorizeReturned /\ ~zeroPivot) =>
     \A i, j \in 0..(rows - 1) :
        Eq(SumVals([k \in 1..rows |-> Mul(LFactor(i, k - 1), UFactor(k - 1, j))]),
           A0[p[i]][j])

C9_Witness ==
  /\ FactorizeReturned
  /\ ~zeroPivot
  /\ rows = 3
  /\ p[0] # 0 /\ p[1] # 1
  /\ \E i \in 1..2 : ~IsZero(A[p[i]][0])
  /\ ~IsZero(A[p[2]][1])

\* the case of C10: solve has returned and never divided by zero
SolvedRegular == Returned /\ ~zeroPivot /\ ~zeroDiag

\* C10 as stated: the i-th unknown is at rhs[p[i]], and rhs is the solution in
\* natural order only when p is the identity.
C10_OnlyWhenIdentity ==
  SolvedRegular =>
     /\ Solves(A0, Unpermuted, rhs0, rows)
     /\ Solves(A0, rhs, rhs0, rows) => p = Identity(rows)

\* C10 as amended: the i-th unknown is at rhs[p[i]]; rhs is the solution in
\* natural order exactly when rhs[p[i]] = rhs[i] for every i, which is the case
\* when p is the identity.
C10_SolutionAtPermuted ==
  SolvedRegular =>
     /\ Solves(A0, Unpermuted, rhs0, rows)
     /\ Solves(A0, rhs, rhs0, rows) <=> (\A i \in 0..(rows - 1) : Eq(rhs[p[i]], rhs[i]))

C10_Witness ==
  /\ SolvedRegular
  /\ rows = 3
  /\ p = (0 :> 1 @@ 1 :> 2 @@ 2 :> 0)
  /\ ~Solves(A0, rhs, rhs0, rows)

====
